---- MODULE Spec2Model ----
(***************************************************************************)
(* A model of src/bot.py: the Telegram control panel that uploads the      *)
(* local ./videos directory to Mega.nz accounts.                           *)
(*                                                                         *)
(* The event loop is single-threaded: a handler or an upload run executes  *)
(* atomically from one suspension point (an await that really yields) to   *)
(* the next.  Blocking storage calls are offloaded to the ThreadPool       *)
(* executor; MegaAPI.get_or_create_session runs inside a worker thread and *)
(* reads and writes the global mega_sessions there, so its cache check and *)
(* its login-and-store are separate steps.  The chat transport is taken by *)
(* its contract (send text, edit message, answer callback): its calls do   *)
(* not fail, and an await on it that separates no reads of shared state is *)
(* merged with the step that follows it.  The settings and accounts files  *)
(* are read and written without error.  The local directory does not       *)
(* change during a behaviour, and a remote account changes only by the     *)
(* folders the runs create.  A worker thread's store and the resumption of *)
(* the coroutine that awaits it are one step.                              *)
(***************************************************************************)
EXTENDS Integers, Sequences, FiniteSets, TLC

\* ------------------------------------------------------------------ bounds
MaxLen == 2        \* longest message text of SpecSettings, in characters

MaxRuns == 2       \* flows (credential handlers, upload runs) of a behaviour
                   \* of Spec

MaxUploads == 2    \* upload runs of a behaviour of SpecUpload

MaxEntries == 2    \* entries of the local directory in SpecUpload

MaxNodes == 2      \* nodes of one remote account

MaxAccounts == 2   \* accounts of SpecBulk

MaxBulks == 2      \* bulk reuploads of a behaviour of SpecBulk

MaxFairBulks == 1  \* bulk reuploads of a behaviour of SpecBulkFair

MaxAdds == 2       \* credentials messages of a behaviour of SpecAdd

MaxFlows == 1      \* flows of a behaviour of SpecSenders

\* --------------------------------------------------------------- constants
\* user ids are only compared; the id is kept as its decimal digits
ADMIN_ID == "7919392701"

\* Python's None, where a text, a session, a link or a timestamp may stand
Null == <<"None">>

\* the report of a run that has composed none
NoReport == [kind |-> "none", files |-> 0, link |-> Null]

Users == {ADMIN_ID, "another user"}

\* BotStates, and the state of a user with no pending prompt
NoState == "no state"

waiting_for_initial_folder_name == "waiting_for_initial_folder_name"

waiting_for_new_folder_name == "waiting_for_new_folder_name"

waiting_for_credentials == "waiting_for_credentials"

\* ------------------------------------------------------------------- texts
\* A text is a sequence of characters.  The words cancel, reset and start
\* stand for themselves as one character each.
Whitespace == {" "}

ReservedChars == {"/", "\\", ":", "*", "?", "\"", "<", ">", "|"}

RECURSIVE lstrip(_)
lstrip(t) == IF t # <<>> /\ Head(t) \in Whitespace THEN lstrip(Tail(t)) ELSE t

RECURSIVE rstrip(_)
rstrip(t) ==
  IF t # <<>> /\ t[Len(t)] \in Whitespace
  THEN rstrip(SubSeq(t, 1, Len(t) - 1))
  ELSE t

strip(t) == rstrip(lstrip(t))

\* any(char in folder_name for char in ['/', '\\', ':', '*', '?', '"', '<', '>', '|'])
HasReserved(name) == \E i \in 1..Len(name) : name[i] \in ReservedChars

\* not folder_name or len(folder_name) < 1
NameEmpty(name) == name = <<>> \/ Len(name) < 1

\* Command("c"): the first word of the text is /c
IsCommand(t, c) ==
  /\ Len(t) >= 2
  /\ t[1] = "/"
  /\ t[2] = c
  /\ (Len(t) = 2 \/ t[3] \in Whitespace)

CmdCancel == <<"/", "cancel">>

CmdReset == <<"/", "reset">>

CmdStart == <<"/", "start">>

\* index of the first ":" of t, 0 when there is none
RECURSIVE FindColon(_, _)
FindColon(t, i) ==
  IF i > Len(t) THEN 0 ELSE IF t[i] = ":" THEN i ELSE FindColon(t, i + 1)

\* text.strip().split(":", 1)
SplitEmail(t) == SubSeq(strip(t), 1, FindColon(strip(t), 1) - 1)

SplitPassword(t) == SubSeq(strip(t), FindColon(strip(t), 1) + 1, Len(strip(t)))

RECURSIVE SeqsUpTo(_, _)
SeqsUpTo(S, n) ==
  IF n = 0 THEN {<<>>}
  ELSE LET shorter == SeqsUpTo(S, n - 1)
       IN shorter \cup {Append(s, c) : s \in {q \in shorter : Len(q) = n - 1}, c \in S}

VARIABLES
  settings,       \* settings.json: whether the file exists, and its document
  fsm,            \* the FSM storage: user -> BotStates state
  accounts,       \* accounts.json: handle -> account document
  mega_sessions,  \* the global session cache: handle -> session
  upload_tasks,   \* the global task registry: handle -> task
  runs,           \* the flows that lead to or are a call of
                  \* upload_files_for_account, by creation
  bulks,          \* reupload_all handlers, by start
  remote,         \* the storage accounts: handle -> node listing
  videos,         \* the entries of ./videos
  sent            \* what the last handler told the sender

vars == <<settings, fsm, accounts, mega_sessions, upload_tasks, runs, bulks,
          remote, videos, sent>>

\* What a handler tells the sender, as far as it is kept: the alert that
\* refuses an operation until the folder name is set, the refusal of a
\* stranger, or anything else.
Told(text) ==
  IF text \in {"setup required", "denied"} THEN text ELSE "other"

\* ---------------------------------------------------------------- settings
DefaultSettings == [folder_name |-> Null, setup_completed |-> FALSE]

\* settings.json after os.remove, or before the first save
NoFile == [file |-> FALSE, doc |-> DefaultSettings]

load_settings == IF settings.file THEN settings.doc ELSE DefaultSettings

save_settings(doc) == [file |-> TRUE, doc |-> doc]

get_folder_name == load_settings.folder_name

\* set_folder_name as it would be without its line 91
set_folder_name_leaves_flag(folder_name) ==
  save_settings([load_settings EXCEPT !.folder_name = folder_name])

set_folder_name(folder_name) ==
  save_settings([load_settings EXCEPT !.folder_name = folder_name,
                                      !.setup_completed = TRUE])

is_setup_completed ==
  load_settings.setup_completed /\ load_settings.folder_name # Null

\* ---------------------------------------------------------------- accounts
Statuses == {"active", "warning", "error"}

\* AccountManager.add_account: the document of a new account (added_at, a
\* timestamp nothing reads, is left out)
NewAccount(password) ==
  [password |-> password, status |-> "active", last_upload |-> Null,
   public_link |-> Null]

add_account(accs, email, password) ==
  [h \in DOMAIN accs \cup {email} |->
     IF h = email THEN NewAccount(password) ELSE accs[h]]

Without(f, k) == [h \in DOMAIN f \ {k} |-> f[h]]

With(f, k, v) == [h \in DOMAIN f \cup {k} |-> IF h = k THEN v ELSE f[h]]

\* MegaAPI.close_session
close_session(sessions, email) ==
  IF email \in DOMAIN sessions THEN Without(sessions, email) ELSE sessions

\* the update as it would be if it wrote the link argument whatever it is
update_account_status_writes_link(accs, email, status, public_link, now) ==
  IF email \in DOMAIN accs
  THEN [accs EXCEPT ![email] =
          [@ EXCEPT !.status = status,
                    !.public_link = public_link,
                    !.last_upload = now]]
  ELSE accs

\* AccountManager.update_account_status; now is the value datetime.now()
\* gives, public_link = Null is the default argument
update_account_status(accs, email, status, public_link, now) ==
  IF email \in DOMAIN accs
  THEN [accs EXCEPT ![email] =
          [@ EXCEPT !.status = status,
                    !.public_link = IF public_link # Null THEN public_link ELSE @,
                    !.last_upload = now]]
  ELSE accs

\* ------------------------------------------------------------------ remote
\* A remote account is its node listing, in the order get_files gives it; a
\* node is its name and its type (0 a file, 1 a folder); its id is its place.
Node(name, type) == [n |-> name, t |-> type]

\* the first node of the listing that is a folder named folder_name, 0 if none
RECURSIVE FindFolderFrom(_, _, _)
FindFolderFrom(files, folder_name, i) ==
  IF i > Len(files) THEN 0
  ELSE IF files[i].n = folder_name /\ files[i].t = 1 THEN i
  ELSE FindFolderFrom(files, folder_name, i + 1)

\* the scan as it would be without the test of the node type
FindFolder_any_type(files, folder_name) ==
  IF \E i \in 1..Len(files) : files[i].n = folder_name
  THEN CHOOSE i \in 1..Len(files) :
         /\ files[i].n = folder_name
         /\ \A j \in 1..(i - 1) : files[j].n # folder_name
  ELSE 0

FindFolder(files, folder_name) == FindFolderFrom(files, folder_name, 1)

\* mega.export(node_id): the link of a node of an account
Link(email, node_id) == <<"link", email, node_id>>

\* ------------------------------------------------------------------- local
\* [f for f in Path(VIDEOS_FOLDER).glob('*') if f.is_file()]
RECURSIVE CountFiles(_)
CountFiles(dir) ==
  IF dir = <<>> THEN 0
  ELSE (IF Head(dir) = "file" THEN 1 ELSE 0) + CountFiles(Tail(dir))

\* the first regular file of dir after place i, 0 if none: the for loop of
\* upload_folder_async with its is_file() test
RECURSIVE NextFile(_, _)
NextFile(dir, i) ==
  IF i + 1 > Len(dir) THEN 0
  ELSE IF dir[i + 1] = "file" THEN i + 1
  ELSE NextFile(dir, i + 1)

\* -------------------------------------------------------------------- runs
\* One record per flow.  Its pc is where it is suspended:
\*   cred_session, cred_login   process_credentials, inside login_async
\*   cred_added                 process_credentials, at the edit_text after
\*                              add_account and before create_task
\*   cred_failed                process_credentials ended, login failed
\*   handler                    reupload_account_handler, at its edit_text
\*   pending                    an iteration reupload_all has not reached
\*   created                    a task asyncio has not yet started
\*   session, login             upload_folder_async, get_or_create_session
\*   get_files, create_folder, upload     upload_folder_async
\*   link_session, link_login, link_get_files, export   get_public_link_async
\*   report                     the final edit_text or send_message
\*   done                       upload_files_for_account returned
\*   orphan_session, orphan_login, orphan_create   the task is cancelled and
\*                              its offloaded call still runs in its thread
\*   cancelled                  the task is cancelled, nothing of it runs
NewRun(pc, email, password, msg) ==
  [pc |-> pc, email |-> email, password |-> password, msg |-> msg,
   files_count |-> 0, folder_name |-> Null, mega |-> Null, files |-> <<>>,
   folder_node |-> 0,
   i |-> 0, uploaded_count |-> 0, attempts |-> <<>>, export_node |-> 0,
   outcome |-> "none", reported |-> NoReport]

\* datetime.now() when flow r writes the status: every flow writes it at
\* most once, so the flow identifies the instant
Now(r) == <<"at", r>>

\* a flow that has ended: its locals are gone
Ended(run, pc) == NewRun(pc, run.email, run.password, run.msg)

\* the session object the login of flow r creates at pc
Sid(r, pc) == <<"session", r, pc>>

CheckPcs == {"cred_session", "session", "link_session", "orphan_session"}

LoginPcs == {"cred_login", "login", "link_login", "orphan_login"}

LoginPc(pc) ==
  CASE pc = "cred_session" -> "cred_login"
    [] pc = "session" -> "login"
    [] pc = "link_session" -> "link_login"
    [] pc = "orphan_session" -> "orphan_login"

\* a call of upload_files_for_account that has started and not ended
RunningPcs == {"session", "login", "get_files", "create_folder", "upload",
               "link_session", "link_login", "link_get_files", "export", "report"}

\* a task or call that exists and has not ended: the above, and a task
\* asyncio has yet to start
LivePcs == RunningPcs \cup {"created"}

\* the except clause of upload_files_for_account: status error, then the
\* report, which is awaited
Fails(r, run, why) ==
  /\ runs' = [runs EXCEPT ![r] =
       [run EXCEPT !.pc = "report", !.outcome = why,
                   !.reported = [kind |-> "error", files |-> 0, link |-> Null]]]
  /\ accounts' = update_account_status(accounts, run.email, "error", Null, Now(r))

\* lines 665-677: files uploaded, no link
Warns(r, run) ==
  /\ runs' = [runs EXCEPT ![r] =
       [run EXCEPT !.pc = "report", !.outcome = "PartialSuccess",
                   !.reported = [kind |-> "partial", files |-> run.files_count,
                                 link |-> Null]]]
  /\ accounts' = update_account_status(accounts, run.email, "warning", Null, Now(r))

\* the success branch as it would be if it wrote the status warning
Succeeds_status_warning(r, run, link) ==
  /\ runs' = [runs EXCEPT ![r] =
       [run EXCEPT !.pc = "report", !.outcome = "Success",
                   !.reported = [kind |-> "success", files |-> run.files_count,
                                 link |-> link]]]
  /\ accounts' = update_account_status(accounts, run.email, "warning", link, Now(r))

\* lines 655-664: files uploaded and the link exported
Succeeds(r, run, link) ==
  /\ runs' = [runs EXCEPT ![r] =
       [run EXCEPT !.pc = "report", !.outcome = "Success",
                   !.reported = [kind |-> "success", files |-> run.files_count,
                                 link |-> link]]]
  /\ accounts' = update_account_status(accounts, run.email, "active", link, Now(r))

\* the start of a run as it would be without the test of files_count
Begins_skips_count(r, run) ==
  LET folder_name == get_folder_name
      counted == [run EXCEPT !.files_count = CountFiles(videos)]
  IN IF folder_name = Null \/ folder_name = <<>>
     THEN Fails(r, counted, "NoFolderName")
     ELSE /\ runs' = [runs EXCEPT ![r] =
                [counted EXCEPT !.pc = "session", !.folder_name = folder_name]]
          /\ UNCHANGED accounts

\* upload_files_for_account from its first line to its first suspension,
\* inside upload_folder_async at get_or_create_session
Begins(r, run) ==
  LET files_count == CountFiles(videos)
      folder_name == get_folder_name
      counted == [run EXCEPT !.files_count = files_count]
  IN IF files_count = 0 THEN Fails(r, counted, "NoFiles")
     ELSE IF folder_name = Null \/ folder_name = <<>>
       THEN Fails(r, counted, "NoFolderName")
     ELSE /\ runs' = [runs EXCEPT ![r] =
                [counted EXCEPT !.pc = "session", !.folder_name = folder_name]]
          /\ UNCHANGED accounts

\* asyncio starts a created task
StartRun(r) ==
  /\ runs[r].pc = "created"
  /\ Begins(r, runs[r])
  /\ UNCHANGED <<settings, fsm, mega_sessions, upload_tasks, bulks, remote,
                 videos, sent>>

\* state.clear() of the operator's FSM context
Cleared == [fsm EXCEPT ![ADMIN_ID] = NoState]

\* the acquisition as it would be if a refused login were not looked at
Acquired_ignores_failure(r, run, mega) ==
  /\ runs' = [runs EXCEPT ![r] = [run EXCEPT !.pc = "get_files", !.mega = mega]]
  /\ UNCHANGED accounts

\* lines 154-160: upload_folder_async has its session, or returns without one
Acquired(r, run, mega) ==
  IF mega = Null THEN Fails(r, run, "AuthFailed")
  ELSE /\ runs' = [runs EXCEPT ![r] = [run EXCEPT !.pc = "get_files", !.mega = mega]]
       /\ UNCHANGED accounts

\* a cancelled task as it would be if the late result of its call were
\* handled by the except clause of upload_files_for_account
Discards_writes_status(r, run) ==
  /\ runs' = [runs EXCEPT ![r] = Ended(run, "cancelled")]
  /\ accounts' = update_account_status(accounts, run.email, "error", Null, Now(r))

\* the offloaded call of a cancelled task returns: nothing awaits its result
Discards(r, run) ==
  /\ runs' = [runs EXCEPT ![r] = Ended(run, "cancelled")]
  /\ UNCHANGED accounts

\* the coroutine of flow r resumes with the result of get_or_create_session
\* (Null: it returned None); a cancelled task does not resume
Resumes(r, run, mega) ==
  CASE run.pc \in {"cred_session", "cred_login"} ->
         IF mega # Null
         THEN /\ accounts' = add_account(accounts, run.email, run.password)
              /\ runs' = [runs EXCEPT ![r] = [run EXCEPT !.pc = "cred_added"]]
              /\ UNCHANGED fsm
         ELSE /\ runs' = [runs EXCEPT ![r] = Ended(run, "cred_failed")]
              /\ fsm' = Cleared
              /\ UNCHANGED accounts
    [] run.pc \in {"session", "login"} ->
         /\ Acquired(r, run, mega)
         /\ UNCHANGED fsm
    [] run.pc \in {"link_session", "link_login"} ->
         /\ IF mega = Null THEN Warns(r, run)
            ELSE /\ runs' = [runs EXCEPT ![r] =
                       [run EXCEPT !.pc = "link_get_files", !.mega = mega]]
                 /\ UNCHANGED accounts
         /\ UNCHANGED fsm
    [] run.pc \in {"orphan_session", "orphan_login"} ->
         /\ Discards(r, run)
         /\ UNCHANGED fsm

\* get_or_create_session in its worker thread, lines 108-109: the cache test
WorkerCheck(r) ==
  /\ runs[r].pc \in CheckPcs
  /\ LET run == runs[r]
     IN IF run.email \in DOMAIN mega_sessions
        THEN Resumes(r, run, mega_sessions[run.email])
        ELSE /\ runs' = [runs EXCEPT ![r] = [run EXCEPT !.pc = LoginPc(run.pc)]]
             /\ UNCHANGED <<accounts, fsm>>
  /\ UNCHANGED <<settings, mega_sessions, upload_tasks, bulks, remote, videos,
                 sent>>

\* get_or_create_session in its worker thread, lines 111-117: the login,
\* which the storage service accepts or refuses, and the store
WorkerLogin(r) ==
  /\ runs[r].pc \in LoginPcs
  /\ LET run == runs[r]
     IN \E ok \in BOOLEAN :
          IF ok
          THEN /\ mega_sessions' = With(mega_sessions, run.email, Sid(r, run.pc))
               /\ Resumes(r, run, Sid(r, run.pc))
          ELSE /\ UNCHANGED mega_sessions
               /\ Resumes(r, run, Null)
  /\ UNCHANGED <<settings, upload_tasks, bulks, remote, videos, sent>>

\* lines 181-195: the for loop reaches its first regular file
EntersLoop(r, run) ==
  LET first == NextFile(videos, 0)
  IN IF first = 0 THEN Fails(r, run, "UploadFailed")
     ELSE /\ runs' = [runs EXCEPT ![r] = [run EXCEPT !.pc = "upload", !.i = first]]
          /\ UNCHANGED accounts

\* lines 160-178: the listing arrives (or get_files raises), the scan, and
\* files[0], which raises KeyError unless the listing has a key 0
GetFiles(r) ==
  /\ runs[r].pc = "get_files"
  /\ LET run == runs[r]
         files == remote[run.email]
         node == FindFolder(files, run.folder_name)
         listed == [run EXCEPT !.files = files]
     IN \E ok \in BOOLEAN :
          IF ~ok THEN Fails(r, run, "FolderFailed")
          ELSE IF node # 0
            THEN EntersLoop(r, [listed EXCEPT !.folder_node = node])
          ELSE \E has_root \in BOOLEAN :
                 IF has_root
                 THEN /\ runs' = [runs EXCEPT ![r] =
                            [listed EXCEPT !.pc = "create_folder"]]
                      /\ UNCHANGED accounts
                 ELSE Fails(r, listed, "FolderFailed")
  /\ UNCHANGED <<settings, fsm, mega_sessions, upload_tasks, bulks, remote,
                 videos, sent>>

\* lines 173-179: mega.create_folder returns or raises; the call of a
\* cancelled task still creates its folder
CreateFolder(r) ==
  /\ runs[r].pc \in {"create_folder", "orphan_create"}
  /\ LET run == runs[r]
         created == Append(remote[run.email], Node(run.folder_name, 1))
     IN \E ok \in BOOLEAN :
          /\ remote' = IF ok THEN [remote EXCEPT ![run.email] = created]
                       ELSE remote
          /\ IF run.pc = "orphan_create" THEN Discards(r, run)
             ELSE IF ok
               THEN EntersLoop(r, [run EXCEPT !.folder_node = Len(created)])
             ELSE Fails(r, run, "FolderFailed")
  /\ UNCHANGED <<settings, fsm, mega_sessions, upload_tasks, bulks, videos, sent>>

\* the loop as it would be if a failed upload ended it
Upload_aborts_on_failure(r) ==
  /\ runs[r].pc = "upload"
  /\ LET run == runs[r]
     IN \E ok \in BOOLEAN :
          LET count == run.uploaded_count + (IF ok THEN 1 ELSE 0)
              next == IF ok THEN NextFile(videos, run.i) ELSE 0
              after == [run EXCEPT !.uploaded_count = count,
                                   !.attempts = Append(@, <<run.i, ok>>)]
          IN IF next # 0
             THEN /\ runs' = [runs EXCEPT ![r] = [after EXCEPT !.i = next]]
                  /\ UNCHANGED accounts
             ELSE IF count > 0
               THEN /\ runs' = [runs EXCEPT ![r] =
                          [after EXCEPT !.pc = "link_session"]]
                    /\ UNCHANGED accounts
             ELSE Fails(r, after, "UploadFailed")
  /\ UNCHANGED <<settings, fsm, mega_sessions, upload_tasks, bulks, remote,
                 videos, sent>>

\* the loop as it would be if its end did not look at uploaded_count
Upload_ignores_count(r) ==
  /\ runs[r].pc = "upload"
  /\ LET run == runs[r]
     IN \E ok \in BOOLEAN :
          LET next == NextFile(videos, run.i)
              after == [run EXCEPT
                          !.uploaded_count = @ + (IF ok THEN 1 ELSE 0),
                          !.attempts = Append(@, <<run.i, ok>>)]
          IN /\ runs' = [runs EXCEPT ![r] =
                  IF next # 0 THEN [after EXCEPT !.i = next]
                  ELSE [after EXCEPT !.pc = "link_session"]]
             /\ UNCHANGED accounts
  /\ UNCHANGED <<settings, fsm, mega_sessions, upload_tasks, bulks, remote,
                 videos, sent>>

\* lines 186-207 and 642-653: one mega.upload returns or raises, the loop
\* goes on to the next regular file, and after the last one the count decides
Upload(r) ==
  /\ runs[r].pc = "upload"
  /\ LET run == runs[r]
     IN \E ok \in BOOLEAN :
          LET count == run.uploaded_count + (IF ok THEN 1 ELSE 0)
              next == NextFile(videos, run.i)
              after == [run EXCEPT !.uploaded_count = count,
                                   !.attempts = Append(@, <<run.i, ok>>)]
          IN IF next # 0
             THEN /\ runs' = [runs EXCEPT ![r] = [after EXCEPT !.i = next]]
                  /\ UNCHANGED accounts
             ELSE IF count > 0
               THEN /\ runs' = [runs EXCEPT ![r] =
                          [after EXCEPT !.pc = "link_session"]]
                    /\ UNCHANGED accounts
             ELSE Fails(r, after, "UploadFailed")
  /\ UNCHANGED <<settings, fsm, mega_sessions, upload_tasks, bulks, remote,
                 videos, sent>>

\* lines 230-245: the second listing and the search of the folder by name
LinkGetFiles(r) ==
  /\ runs[r].pc = "link_get_files"
  /\ LET run == runs[r]
         node == FindFolder(remote[run.email], run.folder_name)
     IN \E ok \in BOOLEAN :
          IF ok /\ node # 0
          THEN /\ runs' = [runs EXCEPT ![r] =
                     [run EXCEPT !.pc = "export", !.export_node = node]]
               /\ UNCHANGED accounts
          ELSE Warns(r, run)
  /\ UNCHANGED <<settings, fsm, mega_sessions, upload_tasks, bulks, remote,
                 videos, sent>>

\* lines 236-249 and 655-677: mega.export returns the link or raises
Export(r) ==
  /\ runs[r].pc = "export"
  /\ LET run == runs[r]
     IN \E ok \in BOOLEAN :
          IF ok THEN Succeeds(r, run, Link(run.email, run.export_node))
          ELSE Warns(r, run)
  /\ UNCHANGED <<settings, fsm, mega_sessions, upload_tasks, bulks, remote,
                 videos, sent>>

\* lines 679-684 and 696-699: the report is delivered and the call returns
Report(r) ==
  /\ runs[r].pc = "report"
  /\ runs' = [runs EXCEPT ![r] = Ended(runs[r], "done")]
  /\ UNCHANGED <<settings, fsm, accounts, mega_sessions, upload_tasks, bulks,
                 remote, videos, sent>>

\* ---------------------------------------------------------------- messages
\* The message handlers in the order they are registered: the first whose
\* filter accepts the message handles it.  A Command filter looks at the
\* text, a StateFilter at the sender's FSM state.
Route(u, t) ==
  IF IsCommand(t, "start") THEN "cmd_start"
  ELSE IF fsm[u] = waiting_for_initial_folder_name
    THEN "process_initial_folder_name"
  ELSE IF fsm[u] = waiting_for_new_folder_name THEN "process_new_folder_name"
  ELSE IF fsm[u] = waiting_for_credentials THEN "process_credentials"
  ELSE IF IsCommand(t, "cancel") THEN "cancel_handler"
  ELSE IF IsCommand(t, "reset") THEN "reset_handler"
  ELSE "unhandled"

cmd_start(u, t) ==
  /\ Route(u, t) = "cmd_start"
  /\ sent' = IF u # ADMIN_ID THEN Told("denied")
             ELSE IF ~is_setup_completed THEN Told("setup keyboard")
             ELSE Told("main keyboard")
  /\ UNCHANGED <<settings, fsm, accounts, mega_sessions, upload_tasks, runs,
                 bulks, remote, videos>>

\* the validation as it would be if a refused name ended the prompt
SubmitsName_ends_prompt(u, t) ==
  LET folder_name == strip(t)
  IN IF NameEmpty(folder_name) \/ HasReserved(folder_name)
     THEN /\ sent' = Told("invalid name")
          /\ fsm' = [fsm EXCEPT ![u] = NoState]
          /\ UNCHANGED settings
     ELSE /\ settings' = set_folder_name(folder_name)
          /\ fsm' = [fsm EXCEPT ![u] = NoState]
          /\ sent' = Told("main keyboard")

\* the validation and the save as they would be if the text were not stripped
SubmitsName_unstripped(u, t) ==
  LET folder_name == t
  IN IF NameEmpty(folder_name) \/ HasReserved(folder_name)
     THEN /\ sent' = Told("invalid name")
          /\ UNCHANGED <<settings, fsm>>
     ELSE /\ settings' = set_folder_name(folder_name)
          /\ fsm' = [fsm EXCEPT ![u] = NoState]
          /\ sent' = Told("main keyboard")

\* lines 456-483 and 496-523: the validation and the save, the same in both
\* handlers
SubmitsName(u, t) ==
  LET folder_name == strip(t)
  IN IF NameEmpty(folder_name) \/ HasReserved(folder_name)
     THEN /\ sent' = Told("invalid name")
          /\ UNCHANGED <<settings, fsm>>
     ELSE /\ settings' = set_folder_name(folder_name)
          /\ fsm' = [fsm EXCEPT ![u] = NoState]
          /\ sent' = Told("main keyboard")

process_initial_folder_name(u, t) ==
  /\ Route(u, t) = "process_initial_folder_name"
  /\ IF u # ADMIN_ID
     THEN UNCHANGED <<settings, fsm, sent>>
     ELSE SubmitsName(u, t)
  /\ UNCHANGED <<accounts, mega_sessions, upload_tasks, runs, bulks, remote,
                 videos>>

process_new_folder_name(u, t) ==
  /\ Route(u, t) = "process_new_folder_name"
  /\ IF u # ADMIN_ID
     THEN UNCHANGED <<settings, fsm, sent>>
     ELSE IF t = CmdCancel
       THEN /\ sent' = Told("main keyboard")
            /\ fsm' = [fsm EXCEPT ![u] = NoState]
            /\ UNCHANGED settings
     ELSE SubmitsName(u, t)
  /\ UNCHANGED <<accounts, mega_sessions, upload_tasks, runs, bulks, remote,
                 videos>>

\* lines 549-582: up to the suspension inside login_async
process_credentials(u, t) ==
  /\ Route(u, t) = "process_credentials"
  /\ IF u # ADMIN_ID
     THEN UNCHANGED <<fsm, runs, sent>>
     ELSE IF t = CmdCancel
       THEN /\ fsm' = [fsm EXCEPT ![u] = NoState]
            /\ sent' = Told("main keyboard")
            /\ UNCHANGED runs
     ELSE IF FindColon(t, 1) = 0
       THEN sent' = Told("invalid format") /\ UNCHANGED <<fsm, runs>>
     ELSE IF SplitEmail(t) \in DOMAIN accounts
       THEN /\ sent' = Told("already added")
            /\ fsm' = [fsm EXCEPT ![u] = NoState]
            /\ UNCHANGED runs
     ELSE /\ runs' = Append(runs, NewRun("cred_session", SplitEmail(t),
                                         SplitPassword(t), TRUE))
          /\ sent' = Told("authorizing")
          /\ UNCHANGED fsm
  /\ UNCHANGED <<settings, accounts, mega_sessions, upload_tasks, bulks, remote,
                 videos>>

\* lines 588-601: after the edit_text, the task is created and registered
CredSpawn(r) ==
  /\ runs[r].pc = "cred_added"
  /\ runs' = [runs EXCEPT ![r].pc = "created"]
  /\ upload_tasks' = With(upload_tasks, runs[r].email, r)
  /\ fsm' = Cleared
  /\ UNCHANGED <<settings, accounts, mega_sessions, bulks, remote, videos, sent>>

cancel_handler(u, t) ==
  /\ Route(u, t) = "cancel_handler"
  /\ IF u # ADMIN_ID
     THEN UNCHANGED <<fsm, sent>>
     ELSE /\ fsm' = [fsm EXCEPT ![u] = NoState]
          /\ sent' = IF is_setup_completed THEN Told("main keyboard")
                     ELSE Told("setup keyboard")
  /\ UNCHANGED <<settings, accounts, mega_sessions, upload_tasks, runs, bulks,
                 remote, videos>>

reset_handler_clears_accounts(u, t) ==
  /\ Route(u, t) = "reset_handler"
  /\ IF u # ADMIN_ID
     THEN UNCHANGED <<settings, accounts, sent>>
     ELSE /\ settings' = NoFile
          /\ accounts' = [h \in {} |-> Null]
          /\ sent' = Told("settings reset")
  /\ UNCHANGED <<fsm, mega_sessions, upload_tasks, runs, bulks, remote, videos>>

reset_handler(u, t) ==
  /\ Route(u, t) = "reset_handler"
  /\ IF u # ADMIN_ID
     THEN UNCHANGED <<settings, sent>>
     ELSE /\ settings' = NoFile
          /\ sent' = Told("settings reset")
  /\ UNCHANGED <<fsm, accounts, mega_sessions, upload_tasks, runs, bulks,
                 remote, videos>>

\* --------------------------------------------------------------- callbacks
setup_folder_name_handler(u) ==
  /\ IF u # ADMIN_ID
     THEN sent' = Told("denied") /\ UNCHANGED fsm
     ELSE /\ fsm' = [fsm EXCEPT ![u] = waiting_for_initial_folder_name]
          /\ sent' = Told("name prompt")
  /\ UNCHANGED <<settings, accounts, mega_sessions, upload_tasks, runs, bulks,
                 remote, videos>>

change_folder_name_handler(u) ==
  /\ IF u # ADMIN_ID
     THEN sent' = Told("denied") /\ UNCHANGED fsm
     ELSE /\ fsm' = [fsm EXCEPT ![u] = waiting_for_new_folder_name]
          /\ sent' = Told("name prompt")
  /\ UNCHANGED <<settings, accounts, mega_sessions, upload_tasks, runs, bulks,
                 remote, videos>>

add_account_handler(u) ==
  /\ IF u # ADMIN_ID
     THEN sent' = Told("denied") /\ UNCHANGED fsm
     ELSE IF ~is_setup_completed
       THEN sent' = Told("setup required") /\ UNCHANGED fsm
     ELSE /\ fsm' = [fsm EXCEPT ![u] = waiting_for_credentials]
          /\ sent' = Told("credentials prompt")
  /\ UNCHANGED <<settings, accounts, mega_sessions, upload_tasks, runs, bulks,
                 remote, videos>>

list_accounts_handler(u) ==
  /\ sent' = IF u # ADMIN_ID THEN Told("denied")
             ELSE IF ~is_setup_completed THEN Told("setup required")
             ELSE IF DOMAIN accounts = {} THEN Told("no accounts")
             ELSE Told("account list")
  /\ UNCHANGED <<settings, fsm, accounts, mega_sessions, upload_tasks, runs,
                 bulks, remote, videos>>

account_details_handler(u, email) ==
  /\ sent' = IF u # ADMIN_ID THEN Told("denied")
             ELSE IF email \notin DOMAIN accounts THEN Told("not found")
             ELSE Told("account details")
  /\ UNCHANGED <<settings, fsm, accounts, mega_sessions, upload_tasks, runs,
                 bulks, remote, videos>>

\* lines 791-805: up to the edit_text that precedes create_task
reupload_account_handler(u, email) ==
  /\ IF u # ADMIN_ID
     THEN sent' = Told("denied") /\ UNCHANGED runs
     ELSE IF email \notin DOMAIN accounts
       THEN sent' = Told("not found") /\ UNCHANGED runs
     ELSE /\ runs' = Append(runs, NewRun("handler", email,
                                         accounts[email].password, TRUE))
          /\ sent' = Told("reupload started")
  /\ UNCHANGED <<settings, fsm, accounts, mega_sessions, upload_tasks, bulks,
                 remote, videos>>

\* lines 807-813: the task is created and registered
ReuploadSpawn(r) ==
  /\ runs[r].pc = "handler"
  /\ runs' = [runs EXCEPT ![r].pc = "created"]
  /\ upload_tasks' = With(upload_tasks, runs[r].email, r)
  /\ UNCHANGED <<settings, fsm, accounts, mega_sessions, bulks, remote, videos,
                 sent>>

\* task.cancel(): CancelledError is raised at the task's suspension point,
\* which no "except Exception" catches, so the coroutine runs no further.
\* An offloaded call that its thread has taken runs to its end; one still
\* queued in the executor is dropped.
CancelOutcomes(pc) ==
  CASE pc \in {"session", "link_session"} -> {"orphan_session", "cancelled"}
    [] pc \in {"login", "link_login"} -> {"orphan_login"}
    [] pc = "create_folder" -> {"orphan_create", "cancelled"}
    [] pc \in {"created", "get_files", "upload", "link_get_files", "export",
               "report"} -> {"cancelled"}
    [] OTHER -> {pc}

Cancelled(run, pc) ==
  IF pc = "cancelled" /\ run.pc # "cancelled" THEN Ended(run, pc)
  ELSE [run EXCEPT !.pc = pc]

\* AccountManager.remove_account
remove_account(email) ==
  IF email \in DOMAIN accounts
  THEN /\ accounts' = Without(accounts, email)
       /\ mega_sessions' = close_session(mega_sessions, email)
       /\ sent' = Told("account deleted")
  ELSE /\ UNCHANGED <<accounts, mega_sessions>>
       /\ sent' = Told("delete failed")

\* the handler as it would be without the test of the sender
delete_account_handler_any_sender(u, email) ==
  /\ IF email \in DOMAIN upload_tasks
     THEN /\ \E pc \in CancelOutcomes(runs[upload_tasks[email]].pc) :
               runs' = [runs EXCEPT ![upload_tasks[email]] = Cancelled(@, pc)]
          /\ upload_tasks' = Without(upload_tasks, email)
     ELSE UNCHANGED <<upload_tasks, runs>>
  /\ remove_account(email)
  /\ UNCHANGED <<settings, fsm, bulks, remote, videos>>

delete_account_handler(u, email) ==
  /\ IF u # ADMIN_ID
     THEN /\ sent' = Told("denied")
          /\ UNCHANGED <<accounts, mega_sessions, upload_tasks, runs>>
     ELSE /\ IF email \in DOMAIN upload_tasks
             THEN /\ \E pc \in CancelOutcomes(runs[upload_tasks[email]].pc) :
                       runs' = [runs EXCEPT ![upload_tasks[email]] =
                                  Cancelled(@, pc)]
                  /\ upload_tasks' = Without(upload_tasks, email)
             ELSE UNCHANGED <<upload_tasks, runs>>
          /\ remove_account(email)
  /\ UNCHANGED <<settings, fsm, bulks, remote, videos>>

\* the orders in which a dict of these keys can be iterated
Orders(S) ==
  {q \in [1..Cardinality(S) -> S] : \A i, j \in DOMAIN q : q[i] = q[j] => i = j}

\* lines 840-858: up to the edit_text that precedes the loop; the loop's
\* iterations are laid out as pending flows, from the accounts read here
reupload_all_handler(u) ==
  /\ IF u # ADMIN_ID
     THEN sent' = Told("denied") /\ UNCHANGED <<runs, bulks>>
     ELSE IF ~is_setup_completed
       THEN sent' = Told("setup required") /\ UNCHANGED <<runs, bulks>>
     ELSE IF DOMAIN accounts = {}
       THEN sent' = Told("no accounts") /\ UNCHANGED <<runs, bulks>>
     ELSE /\ \E order \in Orders(DOMAIN accounts) :
               /\ runs' = runs \o
                    [i \in DOMAIN order |->
                       NewRun("pending", order[i], accounts[order[i]].password,
                              FALSE)]
               /\ bulks' = Append(bulks,
                    [queue |-> [i \in DOMAIN order |-> Len(runs) + i],
                     cur |-> 0, finished |-> FALSE])
          /\ sent' = Told("bulk started")
  /\ UNCHANGED <<settings, fsm, accounts, mega_sessions, upload_tasks, remote,
                 videos>>

\* the loop as it would be if an account left in error ended it
BulkNext_halts_on_error(k) ==
  LET b == bulks[k]
  IN /\ b.cur < Len(b.queue)
     /\ IF b.cur = 0 THEN TRUE
        ELSE /\ runs[b.queue[b.cur]].pc = "done"
             /\ accounts[runs[b.queue[b.cur]].email].status # "error"
     /\ Begins(b.queue[b.cur + 1], runs[b.queue[b.cur + 1]])
     /\ bulks' = [bulks EXCEPT ![k].cur = b.cur + 1]
     /\ UNCHANGED <<settings, fsm, mega_sessions, upload_tasks, remote, videos,
                    sent>>

\* lines 861-865: the loop calls upload_files_for_account for its next
\* account, once the call before it has returned and the sleep has passed
BulkNext(k) ==
  LET b == bulks[k]
  IN /\ b.cur < Len(b.queue)
     /\ IF b.cur = 0 THEN TRUE ELSE runs[b.queue[b.cur]].pc = "done"
     /\ Begins(b.queue[b.cur + 1], runs[b.queue[b.cur + 1]])
     /\ bulks' = [bulks EXCEPT ![k].cur = b.cur + 1]
     /\ UNCHANGED <<settings, fsm, mega_sessions, upload_tasks, remote, videos,
                    sent>>

\* lines 870-875: the loop is over
BulkFinish(k) ==
  LET b == bulks[k]
  IN /\ ~b.finished
     /\ b.cur = Len(b.queue)
     /\ runs[b.queue[b.cur]].pc = "done"
     /\ bulks' = [bulks EXCEPT ![k].finished = TRUE]
     /\ UNCHANGED <<settings, fsm, accounts, mega_sessions, upload_tasks, runs,
                    remote, videos, sent>>

info_handler(u) ==
  /\ sent' = IF u # ADMIN_ID THEN Told("denied") ELSE Told("info")
  /\ UNCHANGED <<settings, fsm, accounts, mega_sessions, upload_tasks, runs,
                 bulks, remote, videos>>

back_to_main_handler(u) ==
  /\ sent' = IF u # ADMIN_ID THEN Told("denied")
             ELSE IF ~is_setup_completed THEN Told("setup keyboard")
             ELSE Told("main keyboard")
  /\ UNCHANGED <<settings, fsm, accounts, mega_sessions, upload_tasks, runs,
                 bulks, remote, videos>>

\* ---------------------------------------------------------- specifications
EmptyMap == [h \in {} |-> Null]

Emails == {<<"a">>}

\* what the operator and the other user send in Spec
Texts ==
  {CmdStart, CmdCancel, CmdReset, <<"x">>}
    \cup {e \o <<":", "p">> : e \in Emails}

\* Spec: a fresh installation, every handler, one storage account, a local
\* directory of one regular file or of none
Init ==
  /\ settings = NoFile
  /\ fsm = [u \in Users |-> NoState]
  /\ accounts = EmptyMap
  /\ mega_sessions = EmptyMap
  /\ upload_tasks = EmptyMap
  /\ runs = <<>>
  /\ bulks = <<>>
  /\ remote = [h \in Emails |-> <<>>]
  /\ videos \in {<<"file">>, <<"dir">>}
  /\ sent = Told("nothing")

\* the steps of the flows: the same in every specification
Flows ==
  \/ \E r \in DOMAIN runs : ReuploadSpawn(r)
  \/ \E r \in DOMAIN runs : StartRun(r)
  \/ \E r \in DOMAIN runs : WorkerCheck(r)
  \/ \E r \in DOMAIN runs : WorkerLogin(r)
  \/ \E r \in DOMAIN runs : GetFiles(r)
  \/ \E r \in DOMAIN runs : CreateFolder(r)
  \/ \E r \in DOMAIN runs : Upload(r)
  \/ \E r \in DOMAIN runs : LinkGetFiles(r)
  \/ \E r \in DOMAIN runs : Export(r)
  \/ \E r \in DOMAIN runs : Report(r)

Next ==
  \/ \E u \in Users, t \in Texts : cmd_start(u, t)
  \/ \E u \in Users, t \in Texts : process_initial_folder_name(u, t)
  \/ \E u \in Users, t \in Texts : process_new_folder_name(u, t)
  \/ /\ Len(runs) < MaxRuns
     /\ \E u \in Users, t \in Texts : process_credentials(u, t)
  \/ \E r \in DOMAIN runs : CredSpawn(r)
  \/ \E u \in Users, t \in Texts : cancel_handler(u, t)
  \/ \E u \in Users, t \in Texts : reset_handler(u, t)
  \/ \E u \in Users : setup_folder_name_handler(u)
  \/ \E u \in Users : change_folder_name_handler(u)
  \/ \E u \in Users : add_account_handler(u)
  \/ \E u \in Users : list_accounts_handler(u)
  \/ \E u \in Users, email \in Emails : account_details_handler(u, email)
  \/ /\ Len(runs) < MaxRuns
     /\ \E u \in Users, email \in Emails : reupload_account_handler(u, email)
  \/ \E u \in Users, email \in Emails : delete_account_handler(u, email)
  \/ /\ Len(runs) + Cardinality(DOMAIN accounts) <= MaxRuns
     /\ \E u \in Users : reupload_all_handler(u)
  \/ \E u \in Users : info_handler(u)
  \/ \E u \in Users : back_to_main_handler(u)
  \/ Flows
  \/ \E k \in DOMAIN bulks : BulkNext(k)
  \/ \E k \in DOMAIN bulks : BulkFinish(k)

Spec == Init /\ [][Next]_vars

\* SpecSettings: the configuration machine alone, over every text of at most
\* MaxLen characters
Chars == {"x", " ", "/", "cancel", "reset", "start"}

SettingsTexts == SeqsUpTo(Chars, MaxLen) \ {<<>>}

NextSettings ==
  \/ \E u \in Users, t \in SettingsTexts : cmd_start(u, t)
  \/ \E u \in Users, t \in SettingsTexts : process_initial_folder_name(u, t)
  \/ \E u \in Users, t \in SettingsTexts : process_new_folder_name(u, t)
  \/ \E u \in Users, t \in SettingsTexts : cancel_handler(u, t)
  \/ \E u \in Users, t \in SettingsTexts : reset_handler(u, t)
  \/ \E u \in Users : setup_folder_name_handler(u)
  \/ \E u \in Users : change_folder_name_handler(u)

SpecSettings == Init /\ [][NextSettings]_vars

\* SpecUpload: the process restarted with its documents on disk (a folder
\* name, one account, no session), over every local directory of at most
\* MaxEntries entries and every remote listing of at most MaxNodes nodes;
\* the operator reuploads and deletes
Nodes == {Node(<<"x">>, 1), Node(<<"x">>, 0), Node(<<"y">>, 1)}

InitUpload ==
  /\ settings = save_settings([folder_name |-> <<"x">>, setup_completed |-> TRUE])
  /\ fsm = [u \in Users |-> NoState]
  /\ accounts = [h \in Emails |-> NewAccount(<<"p">>)]
  /\ mega_sessions = EmptyMap
  /\ upload_tasks = EmptyMap
  /\ runs = <<>>
  /\ bulks = <<>>
  /\ remote \in [Emails -> SeqsUpTo(Nodes, MaxNodes)]
  /\ videos \in SeqsUpTo({"file", "dir"}, MaxEntries)
  /\ sent = Told("nothing")

NextUpload ==
  \/ /\ Len(runs) < MaxUploads
     /\ \E email \in Emails : reupload_account_handler(ADMIN_ID, email)
  \/ \E email \in Emails : delete_account_handler(ADMIN_ID, email)
  \/ Flows

SpecUpload == InitUpload /\ [][NextUpload]_vars

\* SpecBulk: the process restarted with MaxAccounts accounts on disk; the
\* operator reuploads all
EmailNames == <<"a", "b", "c">>

BulkEmails == {<<EmailNames[i]>> : i \in 1..MaxAccounts}

InitBulk ==
  /\ settings = save_settings([folder_name |-> <<"x">>, setup_completed |-> TRUE])
  /\ fsm = [u \in Users |-> NoState]
  /\ accounts = [h \in BulkEmails |-> NewAccount(<<"p">>)]
  /\ mega_sessions = EmptyMap
  /\ upload_tasks = EmptyMap
  /\ runs = <<>>
  /\ bulks = <<>>
  /\ remote = [h \in BulkEmails |-> <<>>]
  /\ videos = <<"file">>
  /\ sent = Told("nothing")

\* the steps of flow r in SpecBulk
BulkRunSteps(r) ==
  /\ r \in DOMAIN runs
  /\ \/ WorkerCheck(r)
     \/ WorkerLogin(r)
     \/ GetFiles(r)
     \/ CreateFolder(r)
     \/ Upload(r)
     \/ LinkGetFiles(r)
     \/ Export(r)
     \/ Report(r)

\* the steps of the loop of bulk k
BulkLoopSteps(k) ==
  /\ k \in DOMAIN bulks
  /\ (BulkNext(k) \/ BulkFinish(k))

\* the steps of a behaviour with at most max bulk reuploads
BulkStep(max) ==
  \/ /\ Len(bulks) < max
     /\ reupload_all_handler(ADMIN_ID)
  \/ \E k \in 1..max : BulkLoopSteps(k)
  \/ \E r \in 1..(max * MaxAccounts) : BulkRunSteps(r)

NextBulk == BulkStep(MaxBulks)

SpecBulk == InitBulk /\ [][NextBulk]_vars

\* SpecBulkFair: the event loop resumes every coroutine that is ready, and
\* every call offloaded to the executor returns
NextBulkFair == BulkStep(MaxFairBulks)

SpecBulkFair ==
  /\ InitBulk
  /\ [][NextBulkFair]_vars
  /\ \A k \in 1..MaxFairBulks : WF_vars(BulkLoopSteps(k))
  /\ \A r \in 1..(MaxFairBulks * MaxAccounts) : WF_vars(BulkRunSteps(r))

\* SpecAdd: the process restarted with a folder name and no account; the
\* operator adds account a, sending its credentials with either password
AddTexts == {<<"a", ":", "p">>, <<"a", ":", "q">>}

InitAdd ==
  /\ settings = save_settings([folder_name |-> <<"x">>, setup_completed |-> TRUE])
  /\ fsm = [u \in Users |-> NoState]
  /\ accounts = EmptyMap
  /\ mega_sessions = EmptyMap
  /\ upload_tasks = EmptyMap
  /\ runs = <<>>
  /\ bulks = <<>>
  /\ remote = [h \in Emails |-> <<>>]
  /\ videos = <<"file">>
  /\ sent = Told("nothing")

NextAdd ==
  \/ add_account_handler(ADMIN_ID)
  \/ /\ Len(runs) < MaxAdds
     /\ \E t \in AddTexts : process_credentials(ADMIN_ID, t)
  \/ \E r \in DOMAIN runs : CredSpawn(r)
  \/ \E r \in DOMAIN runs : StartRun(r)
  \/ \E r \in DOMAIN runs : WorkerCheck(r)
  \/ \E r \in DOMAIN runs : WorkerLogin(r)
  \/ \E r \in DOMAIN runs : GetFiles(r)
  \/ \E r \in DOMAIN runs : CreateFolder(r)
  \/ \E r \in DOMAIN runs : Upload(r)
  \/ \E r \in DOMAIN runs : LinkGetFiles(r)
  \/ \E r \in DOMAIN runs : Export(r)
  \/ \E r \in DOMAIN runs : Report(r)

SpecAdd == InitAdd /\ [][NextAdd]_vars

\* SpecSenders: a fresh installation and every handler, for the operator and
\* for the other user, with at most MaxFlows flows, which go as far as the
\* login
NextSenders ==
  \/ \E u \in Users, t \in Texts : cmd_start(u, t)
  \/ \E u \in Users, t \in Texts : process_initial_folder_name(u, t)
  \/ \E u \in Users, t \in Texts : process_new_folder_name(u, t)
  \/ /\ Len(runs) < MaxFlows
     /\ \E u \in Users, t \in Texts : process_credentials(u, t)
  \/ \E r \in DOMAIN runs : CredSpawn(r)
  \/ \E u \in Users, t \in Texts : cancel_handler(u, t)
  \/ \E u \in Users, t \in Texts : reset_handler(u, t)
  \/ \E u \in Users : setup_folder_name_handler(u)
  \/ \E u \in Users : change_folder_name_handler(u)
  \/ \E u \in Users : add_account_handler(u)
  \/ \E u \in Users : list_accounts_handler(u)
  \/ \E u \in Users, email \in Emails : account_details_handler(u, email)
  \/ /\ Len(runs) < MaxFlows
     /\ \E u \in Users, email \in Emails : reupload_account_handler(u, email)
  \/ \E u \in Users, email \in Emails : delete_account_handler(u, email)
  \/ /\ Len(runs) + Cardinality(DOMAIN accounts) <= MaxFlows
     /\ \E u \in Users : reupload_all_handler(u)
  \/ \E u \in Users : info_handler(u)
  \/ \E u \in Users : back_to_main_handler(u)
  \/ \E r \in DOMAIN runs : StartRun(r)
  \/ \E r \in DOMAIN runs : WorkerCheck(r)
  \/ \E r \in DOMAIN runs : WorkerLogin(r)

SpecSenders == Init /\ [][NextSenders]_vars

\* ------------------------------------------------------------------ claims
\* the upload runs of a handle that have started and have neither finished
\* nor been cancelled
StartedRuns(email) ==
  {r \in DOMAIN runs : runs[r].email = email /\ runs[r].pc \in RunningPcs}

\* C1: in every reachable state, every account handle has at most one live
\* upload run (started, and not yet finished or cancelled).
C1_AtMostOneLiveRun ==
  \A email \in Emails : Cardinality(StartedRuns(email)) <= 1

\* C2: the step that removes an account leaves no upload run of its handle
\* live: every run in flight for it is cancelled by the removal.
C2_DeleteCancelsEveryRun ==
  [][\A email \in DOMAIN accounts :
       email \notin DOMAIN accounts' =>
         \A r \in DOMAIN runs :
           runs[r].email = email => runs'[r].pc \notin LivePcs]_vars

\* the operator's credentials for email are accepted in this step: a flow
\* of process_credentials begins
AddsAccount(email) ==
  /\ Len(runs') = Len(runs) + 1
  /\ runs'[Len(runs')].pc = "cred_session"
  /\ runs'[Len(runs')].email = email

\* C3: at the time of an add-account for a handle that has no account (it
\* was removed, or never added), the session cache holds no entry for the
\* handle, so the add authenticates afresh.
C3_NoSessionAfterRemoval ==
  [][\A email \in Emails :
       (AddsAccount(email) /\ email \notin DOMAIN accounts)
         => email \notin DOMAIN mega_sessions]_vars

\* the six gated operations, issued by the operator; the three that name an
\* account name one that exists
AccountOperation ==
  \/ add_account_handler(ADMIN_ID)
  \/ list_accounts_handler(ADMIN_ID)
  \/ reupload_all_handler(ADMIN_ID)
  \/ \E email \in DOMAIN accounts :
       \/ account_details_handler(ADMIN_ID, email)
       \/ reupload_account_handler(ADMIN_ID, email)
       \/ delete_account_handler(ADMIN_ID, email)

\* C4: whenever setup is not completed, each of the six account operations
\* answers with the setup-required signal and changes no state.
C4_OperationsGated ==
  [][(~is_setup_completed /\ AccountOperation) =>
       /\ sent' = Told("setup required")
       /\ UNCHANGED <<settings, fsm, accounts, mega_sessions, upload_tasks,
                      runs, bulks, remote, videos>>]_vars

\* flow r's login succeeds in this step: its session object is stored
Authenticates(r) ==
  /\ runs[r].pc \in LoginPcs
  /\ runs[r].email \in DOMAIN mega_sessions'
  /\ mega_sessions'[runs[r].email] = Sid(r, runs[r].pc)

\* C6: a cache test that finds a session for the handle goes on with that
\* session and without a login; and a login succeeds for a handle only while
\* no session is cached for it, that is at most once between two
\* invalidations.
C6_AuthenticateOnce ==
  [][\A r \in DOMAIN runs :
       /\ (/\ runs[r].pc \in CheckPcs
           /\ runs[r].email \in DOMAIN mega_sessions
           /\ WorkerCheck(r))
            => /\ runs'[r].pc \notin LoginPcs
               /\ runs'[r].mega \in {Null, mega_sessions[runs[r].email]}
       /\ Authenticates(r) => runs[r].email \notin DOMAIN mega_sessions]_vars

\* C5: the settings record has setup_completed true exactly when its
\* folder_name is neither null nor empty, whatever setup, rename, cancel and
\* reset events came before.
C5_SetupCompletedIffNamed ==
  load_settings.setup_completed
    <=> (load_settings.folder_name # Null /\ load_settings.folder_name # <<>>)

\* setup has completed with a name of more than one character
C5_Named ==
  /\ settings.file
  /\ load_settings.setup_completed
  /\ Len(load_settings.folder_name) > 1

\* the folder-typed nodes of a listing that are named folder_name
Folders(files, folder_name) ==
  {i \in 1..Len(files) : files[i] = Node(folder_name, 1)}

\* C7: a run whose listing holds a folder-typed node named folder_name makes
\* no create_folder call and resolves to the first such node of the listing,
\* as every other run of the same listing does.
C7_ResolutionIdempotent ==
  \A r \in DOMAIN runs :
    LET run == runs[r]
        found == Folders(run.files, run.folder_name)
    IN found # {} =>
         /\ run.pc \notin {"create_folder", "orphan_create"}
         /\ run.folder_node \in found
         /\ \A i \in found : run.folder_node <= i

\* two runs have resolved the folder, which the listing holds behind a file
\* of the same name
C7_TwoRunsResolved ==
  \E r1, r2 \in DOMAIN runs :
    /\ r1 # r2
    /\ \A r \in {r1, r2} :
         /\ runs[r].pc = "upload"
         /\ runs[r].files = <<Node(<<"x">>, 0), Node(<<"x">>, 1)>>
         /\ runs[r].folder_node = 2
    /\ remote[runs[r1].email] = runs[r1].files

\* the places of the regular files of dir, in the order of dir
RegularFiles(dir) ==
  SelectSeq([i \in 1..Len(dir) |-> i], LAMBDA i : dir[i] = "file")

\* the runs that have left the for loop of upload_folder_async
AfterLoop(run) ==
  \/ run.pc \in {"link_session", "link_login", "link_get_files", "export"}
  \/ /\ run.pc = "report"
     /\ run.outcome \in {"UploadFailed", "PartialSuccess", "Success"}

\* C8: the batch attempts every regular file of the directory once and in
\* order, whatever attempts fail, and the uploaded count is the number of
\* attempts that succeeded.
C8_BatchAttemptsEveryFile ==
  \A r \in DOMAIN runs :
    LET run == runs[r]
        tried == [k \in 1..Len(run.attempts) |-> run.attempts[k][1]]
        all == RegularFiles(videos)
    IN /\ Len(tried) <= Len(all)
       /\ tried = SubSeq(all, 1, Len(tried))
       /\ run.uploaded_count =
            Cardinality({k \in 1..Len(run.attempts) : run.attempts[k][2]})
       /\ run.pc = "upload" =>
            (Len(tried) < Len(all) /\ run.i = all[Len(tried) + 1])
       /\ AfterLoop(run) => tried = all

\* the first upload failed and the batch went on to the second, which
\* succeeded
C8_WentOnAfterFailure ==
  \E r \in DOMAIN runs :
    /\ runs[r].pc = "link_session"
    /\ runs[r].attempts = <<<<1, FALSE>>, <<2, TRUE>>>>

\* C9: a run of which some uploads failed and some succeeded goes on to the
\* link export, and when the export succeeds the file count of its report is
\* the number of files uploaded.
C9_ReportsUploadedCount ==
  \A r \in DOMAIN runs :
    LET run == runs[r]
    IN (/\ run.pc = "report"
        /\ \E k \in 1..Len(run.attempts) : run.attempts[k][2]
        /\ \E k \in 1..Len(run.attempts) : ~run.attempts[k][2])
         => /\ run.outcome \in {"Success", "PartialSuccess"}
            /\ run.outcome = "Success" =>
                 run.reported.files = run.uploaded_count

\* run r, past its batch, comes to its report in this step
LinkStageEnds(r) ==
  /\ runs[r].pc \in {"link_session", "link_login", "link_get_files", "export"}
  /\ runs'[r].pc = "report"

\* C10: when a run with at least one uploaded file ends its link stage, the
\* account has status active and the exported link if the export returned
\* one, and status warning otherwise.
C10_ExportDecidesStatus ==
  [][\A r \in DOMAIN runs :
       (LinkStageEnds(r) /\ runs[r].email \in DOMAIN accounts) =>
         LET email == runs[r].email
             exported == runs[r].pc = "export" /\ runs'[r].reported.link # Null
         IN /\ runs[r].uploaded_count >= 1
            /\ exported =>
                 /\ accounts'[email].status = "active"
                 /\ accounts'[email].public_link
                      = Link(email, runs[r].export_node)
                 /\ runs'[r].outcome = "Success"
            /\ ~exported =>
                 /\ accounts'[email].status = "warning"
                 /\ runs'[r].outcome = "PartialSuccess"]_vars

\* a run has exported the link of its folder and the account holds it
C10_LinkPersisted ==
  \E r \in DOMAIN runs :
    /\ runs[r].pc = "report"
    /\ runs[r].outcome = "Success"
    /\ runs[r].email \in DOMAIN accounts
    /\ accounts[runs[r].email].status = "active"
    /\ accounts[runs[r].email].public_link = runs[r].reported.link

\* the login of run r's first acquisition is refused in this step
AcquisitionFails(r) ==
  /\ runs[r].pc = "login"
  /\ WorkerLogin(r)
  /\ UNCHANGED mega_sessions

\* C11: when the session acquisition of a run fails, the run goes to its
\* error report with the account's status set to error, and from there it
\* only ends: it lists, creates, uploads and exports nothing.
C11_AuthFailureEndsRun ==
  [][\A r \in DOMAIN runs :
       /\ AcquisitionFails(r) =>
            /\ runs'[r].pc = "report"
            /\ runs'[r].outcome = "AuthFailed"
            /\ runs'[r].reported.kind = "error"
            /\ runs'[r].attempts = <<>>
            /\ UNCHANGED remote
            /\ runs[r].email \in DOMAIN accounts =>
                 accounts'[runs[r].email].status = "error"
       /\ (runs[r].pc = "report" /\ runs'[r] # runs[r]) =>
            /\ runs'[r].pc \in {"done", "cancelled"}
            /\ UNCHANGED remote]_vars

\* a run whose login was refused is at its report and the account has
\* status error
C11_AuthFailedReported ==
  \E r \in DOMAIN runs :
    /\ runs[r].pc = "report"
    /\ runs[r].outcome = "AuthFailed"
    /\ runs[r].email \in DOMAIN accounts
    /\ accounts[runs[r].email].status = "error"

\* run r takes a step of its own: it starts, goes on or ends, and is not
\* cancelled
RunSteps(r) ==
  /\ runs[r].pc \in RunningPcs \cup {"created", "pending"}
  /\ runs'[r] # runs[r]
  /\ runs'[r].pc \in RunningPcs \cup {"done"}

\* C12: over a local directory with no regular file, a run goes from its
\* start to its error report with the account's status set to error, and
\* then ends; no step of it uploads, and none changes the session cache.
C12_NoFilesLeavesCache ==
  [][RegularFiles(videos) = <<>> =>
       \A r \in DOMAIN runs :
         RunSteps(r) =>
           /\ UNCHANGED <<mega_sessions, remote>>
           /\ runs'[r].attempts = <<>>
           /\ runs[r].pc \in {"created", "pending", "report"}
           /\ runs[r].pc \in {"created", "pending"} =>
                /\ runs'[r].pc = "report"
                /\ runs'[r].outcome = "NoFiles"
                /\ runs[r].email \in DOMAIN accounts =>
                     accounts'[runs[r].email].status = "error"
           /\ runs[r].pc = "report" => runs'[r].pc = "done"]_vars

\* a run has found no file to upload; the session cached when the account
\* was added is still cached
C12_NoFilesReported ==
  \E r \in DOMAIN runs :
    /\ runs[r].pc = "report"
    /\ runs[r].outcome = "NoFiles"
    /\ RegularFiles(videos) = <<>>
    /\ runs[r].email \in DOMAIN accounts
    /\ accounts[runs[r].email].status = "error"
    /\ runs[r].email \in DOMAIN mega_sessions

\* the pcs of get_public_link_async
LinkPcs == {"link_session", "link_login", "link_get_files", "export"}

\* C13: a run that leaves its upload loop with no file uploaded goes to its
\* error report with the account's status set to error and then only ends;
\* only runs with a file uploaded are ever in the link stage.
C13_AllFailedNoExport ==
  [][\A r \in DOMAIN runs :
       /\ (/\ runs[r].pc = "upload"
           /\ RunSteps(r)
           /\ runs'[r].pc # "upload"
           /\ runs'[r].uploaded_count = 0) =>
            /\ runs'[r].pc = "report"
            /\ runs'[r].outcome = "UploadFailed"
            /\ runs'[r].reported.kind = "error"
            /\ runs[r].email \in DOMAIN accounts =>
                 accounts'[runs[r].email].status = "error"
       /\ runs'[r].pc \in LinkPcs => runs'[r].uploaded_count >= 1
       /\ (runs[r].pc = "report" /\ RunSteps(r)) => runs'[r].pc = "done"]_vars

\* both uploads of a run have failed and the account has status error
C13_AllFailedReported ==
  \E r \in DOMAIN runs :
    /\ runs[r].pc = "report"
    /\ runs[r].attempts = <<<<1, FALSE>>, <<2, FALSE>>>>
    /\ runs[r].email \in DOMAIN accounts
    /\ accounts[runs[r].email].status = "error"

\* C14: when a run comes to its report, the account's last_upload is written
\* if the run ends in Success, PartialSuccess or UploadFailed, and is left as
\* it was if the run ends in AuthFailed, FolderFailed or NoFiles.
C14_LastUploadByUploadRuns ==
  [][\A r \in DOMAIN runs :
       (/\ RunSteps(r)
        /\ runs[r].pc # "report"
        /\ runs'[r].pc = "report"
        /\ runs[r].email \in DOMAIN accounts) =>
         LET email == runs[r].email
         IN /\ runs'[r].outcome \in {"Success", "PartialSuccess", "UploadFailed"}
                 => accounts'[email].last_upload = Now(r)
            /\ runs'[r].outcome \in {"AuthFailed", "FolderFailed", "NoFiles"}
                 => accounts'[email].last_upload = accounts[email].last_upload]_vars

\* bulk k has run upload_files_for_account to its end for every account
BulkCompleted(k) ==
  /\ k \in DOMAIN bulks
  /\ bulks[k].finished
  /\ {runs[bulks[k].queue[i]].email : i \in DOMAIN bulks[k].queue} = BulkEmails
  /\ \A i \in DOMAIN bulks[k].queue : runs[bulks[k].queue[i]].pc = "done"

\* C15: a bulk reupload over the known accounts runs every one of them to
\* its end, whatever runs fail on the way.
C15_BulkReachesEveryAccount ==
  \A k \in 1..MaxFairBulks : (k \in DOMAIN bulks) ~> BulkCompleted(k)

\* a bulk has ended with one account in error and another active
C15_BulkPastAFailure ==
  /\ BulkCompleted(1)
  /\ \E e1, e2 \in BulkEmails :
       /\ accounts[e1].status = "error"
       /\ accounts[e1].last_upload # Null
       /\ accounts[e2].status = "active"
       /\ accounts[e2].public_link # Null
       /\ runs[bulks[1].queue[1]].email = e1

\* the runs that bulk reuploads have laid out
BulkRuns ==
  {r \in DOMAIN runs :
     \E k \in DOMAIN bulks : \E i \in DOMAIN bulks[k].queue :
       bulks[k].queue[i] = r}

\* C16: at most one run started by a bulk reupload is executing at any
\* time, and within a bulk the run of an account has started only if the
\* runs of the accounts before it have ended.
C16_BulkRunsSerialized ==
  /\ Cardinality({r \in BulkRuns : runs[r].pc \in RunningPcs}) <= 1
  /\ \A k \in DOMAIN bulks : \A i, j \in DOMAIN bulks[k].queue :
       (i < j /\ runs[bulks[k].queue[j]].pc # "pending")
         => runs[bulks[k].queue[i]].pc = "done"

\* the steps of the reset command: any step that deletes the settings file,
\* and a step of the handler on /reset
Resets ==
  \/ settings.file /\ ~settings'.file
  \/ /\ UNCHANGED <<fsm, runs, bulks, remote, videos>>
     /\ \E u \in Users : reset_handler(u, CmdReset)

\* C17: a reset leaves the accounts document, the session cache and the
\* registry of upload tasks as they were.
C17_ResetChangesOnlySettings ==
  [][Resets => UNCHANGED <<accounts, mega_sessions, upload_tasks>>]_vars

\* the settings file is gone while an account, its session and its task exist
C17_ResetWithAccount ==
  /\ ~settings.file
  /\ accounts # EmptyMap
  /\ mega_sessions # EmptyMap
  /\ upload_tasks # EmptyMap

\* a task that was cancelled: ended, or with an offloaded call still in its
\* thread
CancelledPcs == {"orphan_session", "orphan_login", "orphan_create", "cancelled"}

\* C18: a step of a cancelled task, the return of its offloaded call
\* included, leaves the accounts document as it was.
C18_CancelledRunLeavesAccounts ==
  [][\A r \in DOMAIN runs :
       (runs[r].pc \in CancelledPcs /\ runs'[r] # runs[r])
         => UNCHANGED accounts]_vars

\* the login of a cancelled task returned after its account had been deleted
\* and added again: its session is in the cache, its task has ended
C18_LateResultDiscarded ==
  \E r \in DOMAIN runs :
    /\ runs[r].pc = "cancelled"
    /\ runs[r].email \in DOMAIN accounts
    /\ runs[r].email \in DOMAIN mega_sessions
    /\ mega_sessions[runs[r].email] = Sid(r, "orphan_login")

\* C19: every entry of the registry of upload tasks is for a task that has
\* not ended.
C19_RegistryHoldsLiveTasks ==
  \A email \in DOMAIN upload_tasks : runs[upload_tasks[email]].pc \in LivePcs

\* the text t without the whitespace before its first and after its last
\* character that is not whitespace
Trimmed(t) ==
  LET inked == {i \in 1..Len(t) : t[i] \notin Whitespace}
  IN IF inked = {} THEN <<>>
     ELSE SubSeq(t, CHOOSE i \in inked : \A j \in inked : i <= j,
                    CHOOSE i \in inked : \A j \in inked : i >= j)

\* a valid name: not empty once trimmed, and free of reserved characters
ValidName(t) ==
  /\ Trimmed(t) # <<>>
  /\ \A i \in 1..Len(Trimmed(t)) : Trimmed(t)[i] \notin ReservedChars

\* the valid names among the texts of SpecSettings
ValidNames == {t \in SettingsTexts : ValidName(t)}

\* C20: a valid name sent by the operator while the initial name or a new
\* name is awaited is handled by the handler of that state, which saves the
\* trimmed name with setup_completed true and clears the operator's state.
C20_ValidNameConfigures ==
  [][fsm[ADMIN_ID] \in {waiting_for_initial_folder_name,
                        waiting_for_new_folder_name}
       => \A t \in ValidNames :
            /\ Route(ADMIN_ID, t) =
                 IF fsm[ADMIN_ID] = waiting_for_initial_folder_name
                 THEN "process_initial_folder_name"
                 ELSE "process_new_folder_name"
            /\ (\/ process_initial_folder_name(ADMIN_ID, t)
                \/ process_new_folder_name(ADMIN_ID, t))
                 => /\ settings' = [file |-> TRUE,
                                    doc |-> [folder_name |-> Trimmed(t),
                                             setup_completed |-> TRUE]]
                    /\ fsm'[ADMIN_ID] = NoState]_vars

\* the operator is configured with the one-character name, no prompt pending
C20_NameSaved ==
  /\ settings = [file |-> TRUE,
                 doc |-> [folder_name |-> <<"x">>, setup_completed |-> TRUE]]
  /\ fsm[ADMIN_ID] = NoState

\* the texts of SpecSettings that are no valid name
InvalidNames == {t \in SettingsTexts : ~ValidName(t)}

\* C21: a text of the operator that is empty once trimmed or holds a reserved
\* character, sent while the initial name or a new name is awaited (/cancel
\* excepted while a new name is awaited), is handled by the handler of that
\* state or by cmd_start, and the step leaves the settings file and the
\* operator's state as they were.
C21_InvalidNameChangesNothing ==
  [][fsm[ADMIN_ID] \in {waiting_for_initial_folder_name,
                        waiting_for_new_folder_name}
       => \A t \in InvalidNames :
            /\ Route(ADMIN_ID, t) \in
                 {"cmd_start",
                  IF fsm[ADMIN_ID] = waiting_for_initial_folder_name
                  THEN "process_initial_folder_name"
                  ELSE "process_new_folder_name"}
            /\ (\/ cmd_start(ADMIN_ID, t)
                \/ process_initial_folder_name(ADMIN_ID, t)
                \/ t # CmdCancel /\ process_new_folder_name(ADMIN_ID, t))
                 => UNCHANGED <<settings, fsm>>]_vars

\* a new name is awaited, whatever was sent since the prompt, and the name
\* set before is in the settings file
C21_StillAwaitingRename ==
  /\ fsm[ADMIN_ID] = waiting_for_new_folder_name
  /\ settings.file
  /\ load_settings = [folder_name |-> <<"x", "x">>, setup_completed |-> TRUE]

\* C22: a step that puts the operator in waiting_for_new_folder_name starts
\* where setup has completed and no prompt is pending.
C22_RenameOnlyFromConfigured ==
  [][(/\ fsm'[ADMIN_ID] = waiting_for_new_folder_name
      /\ fsm[ADMIN_ID] # waiting_for_new_folder_name)
       => /\ is_setup_completed
          /\ fsm[ADMIN_ID] = NoState]_vars

\* the operator's /cancel is handled
Cancels ==
  \/ process_initial_folder_name(ADMIN_ID, CmdCancel)
  \/ process_new_folder_name(ADMIN_ID, CmdCancel)
  \/ process_credentials(ADMIN_ID, CmdCancel)
  \/ cancel_handler(ADMIN_ID, CmdCancel)

\* C23: the operator's /cancel, sent while a prompt is pending, leaves no
\* prompt pending and leaves the settings file as it was.
C23_CancelEndsPrompt ==
  [][(fsm[ADMIN_ID] # NoState /\ Cancels)
       => (fsm'[ADMIN_ID] = NoState /\ settings' = settings)]_vars

\* the status that records an outcome
StatusOf(outcome) ==
  CASE outcome = "Success" -> "active"
    [] outcome = "PartialSuccess" -> "warning"
    [] OTHER -> "error"

\* C24: when a run reaches its outcome, the accounts document holds the
\* run's account with the status of that outcome.
C24_OutcomeRecorded ==
  [][\A r \in DOMAIN runs :
       (runs[r].pc # "report" /\ runs'[r].pc = "report")
         => /\ runs'[r].email \in DOMAIN accounts'
            /\ accounts'[runs'[r].email].status = StatusOf(runs'[r].outcome)]_vars

\* the flow of process_credentials r ends its login in this step
CredLoginEnds(r) ==
  /\ runs[r].pc \in {"cred_session", "cred_login"}
  /\ runs'[r].pc \in {"cred_added", "cred_failed"}

\* C25: a flow of process_credentials that adds its account got its session
\* from a login made while adding an account with the flow's own email and
\* password, and the email had no account; a flow whose login failed leaves
\* the accounts document, the session cache and the registry as they were.
C25_AddOnlyAfterAuthentication ==
  [][\A r \in DOMAIN runs :
       CredLoginEnds(r) =>
         IF runs'[r].pc = "cred_added"
         THEN /\ runs[r].email \notin DOMAIN accounts
              /\ LET mega == mega_sessions'[runs[r].email]
                 IN /\ mega[3] = "cred_login"
                    /\ runs[mega[2]].email = runs[r].email
                    /\ runs[mega[2]].password = runs[r].password
         ELSE UNCHANGED <<accounts, mega_sessions, upload_tasks>>]_vars

\* a step of get_or_create_session, which runs in a thread of the executor
WorkerSteps == \E r \in DOMAIN runs : WorkerCheck(r) \/ WorkerLogin(r)

\* C26: a step made inside an offloaded call leaves the session cache and
\* the registry of upload tasks as they were.
C26_WorkersLeaveCacheAndRegistry ==
  [][WorkerSteps => UNCHANGED <<mega_sessions, upload_tasks>>]_vars

\* C27: a run whose listing has arrived, with nodes but with no folder-typed
\* node named folder_name, goes on to the create_folder call; and a run that
\* leaves that call for the loop has added one folder of that name to the
\* account, which is its destination.
C27_CreatesMissingFolder ==
  [][\A r \in DOMAIN runs :
       /\ (/\ runs[r].pc = "get_files"
           /\ runs'[r].pc # "get_files"
           /\ runs'[r].files # <<>>
           /\ Folders(runs'[r].files, runs[r].folder_name) = {})
            => runs'[r].pc = "create_folder"
       /\ (runs[r].pc = "create_folder" /\ runs'[r].pc = "upload")
            => /\ remote'[runs[r].email] =
                    Append(remote[runs[r].email], Node(runs[r].folder_name, 1))
               /\ runs'[r].folder_node = Len(remote'[runs[r].email])]_vars

\* C28: a step that completes the setup starts where the operator is in
\* waiting_for_initial_folder_name.
C28_ConfiguredOnlyThroughSetup ==
  [][(~is_setup_completed /\ is_setup_completed')
       => fsm[ADMIN_ID] = waiting_for_initial_folder_name]_vars

\* an event of a sender other than the operator is handled
OtherSends ==
  \E u \in Users \ {ADMIN_ID} :
    \/ \E t \in Texts :
         \/ cmd_start(u, t)
         \/ process_initial_folder_name(u, t)
         \/ process_new_folder_name(u, t)
         \/ process_credentials(u, t)
         \/ cancel_handler(u, t)
         \/ reset_handler(u, t)
    \/ \E email \in Emails :
         \/ account_details_handler(u, email)
         \/ reupload_account_handler(u, email)
         \/ delete_account_handler(u, email)
    \/ setup_folder_name_handler(u)
    \/ change_folder_name_handler(u)
    \/ add_account_handler(u)
    \/ list_accounts_handler(u)
    \/ reupload_all_handler(u)
    \/ info_handler(u)
    \/ back_to_main_handler(u)

\* C29: the handling of a message or callback of a sender other than the
\* operator leaves the settings file, the FSM states, the accounts document,
\* the session cache and the registry of upload tasks as they were.
C29_OtherSendersChangeNothing ==
  [][OtherSends
       => UNCHANGED <<settings, fsm, accounts, mega_sessions, upload_tasks>>]_vars

\* the other user has just been refused while an account, its session and
\* its task exist and the operator has a prompt pending
C29_RefusedWithAccount ==
  /\ sent = Told("denied")
  /\ accounts # EmptyMap
  /\ mega_sessions # EmptyMap
  /\ upload_tasks # EmptyMap
  /\ fsm[ADMIN_ID] # NoState

\* a run for email comes to the outcome Success in this step
SucceedsFor(email) ==
  \E r \in DOMAIN runs :
    /\ runs[r].pc # "report"
    /\ runs'[r].pc = "report"
    /\ runs'[r].outcome = "Success"
    /\ runs'[r].email = email

\* C30: while an account exists, a link it holds stays as it is, except in
\* the step in which a run for the account succeeds, which leaves a link.
C30_LinkKeptUnlessSuccess ==
  [][\A email \in DOMAIN accounts \cap DOMAIN accounts' :
       accounts[email].public_link # Null
         => \/ accounts'[email].public_link = accounts[email].public_link
            \/ /\ SucceedsFor(email)
               /\ accounts'[email].public_link # Null]_vars

\* a run has ended in error or without a link for an account that holds the
\* link of an earlier run
C30_LinkOutlivesFailure ==
  \E r \in DOMAIN runs :
    /\ runs[r].pc = "report"
    /\ runs[r].outcome # "Success"
    /\ runs[r].email \in DOMAIN accounts
    /\ accounts[runs[r].email].public_link # Null
    /\ accounts[runs[r].email].status \in {"warning", "error"}

====
